---- MODULE Spec2Model ----
(***************************************************************************)
(* State-machine model of the animated network backgrounds of the          *)
(* AppDost / TechNova front end:                                           *)
(*   - the 2D canvas components (AppDostPrecision, GeometricNetwork,       *)
(*     Canvas2DRingNetwork): mount, resize, animation frames, unmount;     *)
(*   - the connectivity builders (distance threshold and structural ring   *)
(*     rules) and the node-field generators, as pure functions;            *)
(*   - the per-frame animators of the 3D scene components (useFrame).      *)
(*   - the page components around them (Header, Footer, Hero, App,        *)
(*     MetricCard) and the helpers animateValue and debounce.              *)
(* Each part has its own specification; the variables of the other parts   *)
(* stay at their idle values.                                              *)
(***************************************************************************)
EXTENDS Integers, Sequences, FiniteSets

VARIABLES
  \* ---- canvas components ----
  comp,           \* which canvas component this run is about
  phase,          \* "rendered" (effects not yet run), "mounted", "unmounted"
  viewport,       \* window.innerWidth/innerHeight, as a size index (0 = zero width)
  dimensions,     \* the committed `dimensions` state (AppDostPrecision, GeometricNetwork)
  pendingDims,    \* a setDimensions value not yet rendered, or NoDims
  canvasSize,     \* canvas.width / canvas.height
  resizeListener, \* TRUE while the component's resize listener is registered
  rafQueue,       \* pending requestAnimationFrame callbacks: [id, loop]
  animationRef,   \* animationRef.current / animationId (0 = never set)
  nextId,         \* the id the next requestAnimationFrame call returns
  hasCleanup,     \* TRUE when the last run of the animation effect returned a cleanup
  closures,       \* one record per run of the animation effect: its nodes
  prevNodes,      \* history: the node array of the running loop before the last frame
  frameLog,       \* history: what the last frame callback did
  \* ---- node-field generators and connectivity builders ----
  call,           \* the function applied, "none" before the call
  input,          \* the arguments of the call
  output,         \* what the call returned, NoOutput before the call
  \* ---- per-frame animators of the 3D scene components ----
  animator,       \* the component whose useFrame callback this run is about
  scene,          \* what each ref of the component points at
  clock,          \* state.clock.elapsedTime, in sixtieths of a second
  buffers,        \* the typed arrays and scene values the callback writes
  animLog,        \* history: what the last call of the callback did
  \* ---- page components and helpers (Header, Footer, App, MetricCard, ...) ----
  widget,         \* the component or helper this run is about
  ui,             \* its React state, what it rendered and registered, its timers
  uiLog           \* history: what the last event or callback did

cvars == <<comp, phase, viewport, dimensions, pendingDims, canvasSize, resizeListener,
           rafQueue, animationRef, nextId, hasCleanup, closures, prevNodes, frameLog>>

bvars == <<call, input, output>>

avars == <<animator, scene, clock, buffers, animLog>>

uvars == <<widget, ui, uiLog>>

vars == <<cvars, bvars, avars, uvars>>

----------------------------------------------------------------------------
(* Bounds of the model *)

\* viewport sizes are 0..MaxSize
MaxSize == 2
\* requestAnimationFrame ids handed out in one run
MaxRaf == 4
\* requestAnimationFrame ids handed out to a component left mounted
MaxFrames == 30

\* node positions are 0..MaxCoord, node lists have at most MaxNodes nodes
MaxCoord == 3
MaxNodes == 3
\* distance thresholds are 0..MaxD, degree caps 0..MaxK
MaxD == 3
MaxK == 2

\* the outcomes of Math.random() repeat with this period
RndPeriod == 7

\* requested node counts are 0..MaxCount
MaxCount == 30
\* the draws of Math.random() in a connection loop repeat with period JitPeriod
JitPeriod == 2

\* the animated buffers hold SpherePoints particles, SphereLines line segments
\* and FloatCount floating particles; the clock runs to MaxClock
SpherePoints == 4
SphereLines == 4
FloatCount == 2
MaxClock == 4

\* the newsletter form is followed for MaxTime half seconds and MaxSubmits
\* submissions
MaxTime == 8
MaxSubmits == 3

\* App creates at most MaxScripts script elements
MaxScripts == 4

\* the debounced function is called at most MaxCalls times
MaxCalls == 3

(* Program constants *)

\* generateFracturedNetwork: connectionCount < 8, and Math.random() * 0.4 in tenths
fracturedMaxConnections == 8
jitterTenths == 4

rings == 5

perfectNodeCount == 24
professionalNodeCount == 20
exactNodeCount == 28
simpleNodeCount == 20

\* handleNewsletterSubmit: 1000, 3000 and 5000 ms, in half seconds
requestDelay == 2
errorDelay == 6
successDelay == 10

\* MetricCard: animateValue(0, metric.value, 2000, ...), in half seconds
countUpDuration == 4

mainCircleNodes == 24
innerNodes == 12
outerNodes == 16
layers == 5
nodeCount == 24

Sizes == 0..MaxSize
NoDims == -1
CanvasComponents == {"AppDostPrecision", "GeometricNetwork", "Canvas2DRingNetwork"}
StatefulComponents == {"AppDostPrecision", "GeometricNetwork"}

----------------------------------------------------------------------------
(* Node-field generation of the canvas components.  A node keeps what the   *)
(* frame callback reads: its type or layer, the viewport size its rest      *)
(* position (originalX, originalY) was computed for, and `turns`, the       *)
(* number of rotationSpeed increments added to node.angle so far (x and y   *)
(* are functions of originalX/Y and angle).                                  *)

generatePerfectCircle(size) ==
  [i \in 1..mainCircleNodes |->
     [type |-> "main", index |-> i - 1, centre |-> size, turns |-> 0]]
  \o [i \in 1..innerNodes |->
        [type |-> "inner", index |-> i - 1, centre |-> size, turns |-> 0]]
  \o << [type |-> "center", index |-> 0, centre |-> size, turns |-> 0] >>
  \o [i \in 1..outerNodes |->
        [type |-> "outer", index |-> i - 1, centre |-> size, turns |-> 0]]

RECURSIVE LayerNodes(_, _)
LayerNodes(layer, size) ==
  IF layer > layers THEN << >>
  ELSE [i \in 1..(layer * 8) |-> [type |-> "layer", layer |-> layer, index |-> i - 1,
                                   centre |-> size, turns |-> 0]]
       \o LayerNodes(layer + 1, size)

generateNodes(size) ==
  << [type |-> "layer", layer |-> 0, index |-> 0, centre |-> size, turns |-> 0] >>
  \o LayerNodes(1, size)

RingNodes(size) ==
  [i \in 1..nodeCount |-> [type |-> "ring", index |-> i - 1, centre |-> size]]

Generate(c, size) ==
  CASE c = "AppDostPrecision" -> generatePerfectCircle(size)
    [] c = "GeometricNetwork" -> generateNodes(size)
    [] OTHER -> RingNodes(size)

\* nodes.forEach(node => { ... node.angle += rotationSpeed ... }) of animate
Rotates(c, node) ==
  CASE c = "AppDostPrecision" -> node.type \in {"main", "inner"}
    [] c = "GeometricNetwork" -> node.layer > 0
    [] OTHER -> FALSE

UpdateNodes(c, nodes) ==
  [i \in 1..Len(nodes) |->
     IF Rotates(c, nodes[i]) THEN [nodes[i] EXCEPT !.turns = @ + 1] ELSE nodes[i]]

----------------------------------------------------------------------------
(* Where a node is drawn, and which connections a frame draws.  A viewport  *)
(* of size index s is 400 * s pixels in its smaller dimension.  Angles are  *)
(* in units of 0.0001 rad (fullCircle to the turn), lengths in pixels.      *)
(* Math.random() in the two generators is taken as 0: the outer nodes lie   *)
(* at 1.3 * baseRadius and node.angle starts at the angle of the position.  *)
(* The cosine is read from a table of 48 steps to the turn, in thousandths. *)

fullCircle == 62832

CosQuarter == << 1000, 991, 966, 924, 866, 793, 707, 609, 500, 383, 259, 131, 0 >>

\* Math.cos(a) * 1000, a in angle units
Cos1000(a) ==
  LET k == ((a % fullCircle) * 48) \div fullCircle
  IN CASE k <= 12 -> CosQuarter[k + 1]
       [] k <= 24 -> 0 - CosQuarter[(24 - k) + 1]
       [] k <= 36 -> 0 - CosQuarter[(k - 24) + 1]
       [] OTHER -> CosQuarter[(48 - k) + 1]

\* baseRadius = min(width, height) * 0.25; maxRadius = min(width, height) * 0.3
baseRadius(size) == 100 * size
maxRadius(size) == 120 * size

\* the distance of a node from the centre: currentRadius of animate
NodeRadius(node) ==
  CASE node.type = "main" -> baseRadius(node.centre)
    [] node.type = "inner" -> (baseRadius(node.centre) * 6) \div 10
    [] node.type = "center" -> 0
    [] node.type = "outer" -> (baseRadius(node.centre) * 13) \div 10
    [] node.type = "layer" -> (maxRadius(node.centre) \div layers) * node.layer

\* node.angle after node.turns frames
NodeAngle(node) ==
  CASE node.type = "main" -> (fullCircle * node.index) \div mainCircleNodes + 3 * node.turns
    [] node.type = "inner" ->
         (fullCircle * node.index) \div innerNodes + (fullCircle \div (2 * innerNodes))
           - 2 * node.turns
    [] node.type = "center" -> 0
    [] node.type = "outer" -> (fullCircle * node.index) \div outerNodes
    [] node.type = "layer" ->
         IF node.layer = 0 THEN 0
         ELSE (fullCircle * node.index) \div (8 * node.layer) + 1000 * node.layer
                + (10 + 2 * node.layer) * node.turns

\* 1000 * distance^2 of two nodes as drawn
Distance2(a, b) ==
  LET ra == NodeRadius(a)
      rb == NodeRadius(b)
  IN 1000 * (ra * ra + rb * rb) - 2 * ra * rb * Cos1000(NodeAngle(a) - NodeAngle(b))

Within(a, b, maxDistance) == Distance2(a, b) < 1000 * maxDistance * maxDistance

\* AppDostPrecision animate: the connection rules
PrecisionConnects(a, b) ==
  LET R == baseRadius(a.centre)
  IN CASE a.type = "center" \/ b.type = "center" -> Within(a, b, (R * 7) \div 10)
       [] a.type = "main" /\ b.type = "main" -> Within(a, b, (R * 8) \div 10)
       [] {a.type, b.type} = {"main", "inner"} -> Within(a, b, (R * 5) \div 10)
       [] a.type = "inner" /\ b.type = "inner" -> Within(a, b, (R * 4) \div 10)
       [] "outer" \in {a.type, b.type} /\ {a.type, b.type} \cap {"main", "inner"} # {} ->
            Within(a, b, (R * 6) \div 10)
       [] OTHER -> FALSE

\* GeometricNetwork animate: maxDistance by layer difference
GeometricConnects(a, b) ==
  LET layerDiff == IF a.layer >= b.layer THEN a.layer - b.layer ELSE b.layer - a.layer
  IN Within(a, b, IF layerDiff <= 1 THEN 120 + a.layer * 20 ELSE 80)

\* the pairs i < j (0-based) animate strokes a line for
DrawnEdges(c, nodes) ==
  {e \in (0..(Len(nodes) - 1)) \X (0..(Len(nodes) - 1)) :
     /\ e[1] < e[2]
     /\ CASE c = "AppDostPrecision" -> PrecisionConnects(nodes[e[1] + 1], nodes[e[2] + 1])
          [] c = "GeometricNetwork" -> GeometricConnects(nodes[e[1] + 1], nodes[e[2] + 1])
          [] OTHER -> FALSE}

----------------------------------------------------------------------------
(* requestAnimationFrame / cancelAnimationFrame *)

CancelFrame(q, id) == {cb \in q : cb.id # id}

\* the cleanup returned by the animation effect of AppDostPrecision and
\* GeometricNetwork: if (animationRef.current) cancelAnimationFrame(...)
EffectCleanup_NoCancel(q, ref) == q

EffectCleanup(q, ref) == IF ref # 0 THEN CancelFrame(q, ref) ELSE q

\* window.removeEventListener('resize', ...) in a cleanup
RemoveResizeListener_Kept(registered) == registered

RemoveResizeListener(registered) == FALSE

NoFrame == [ran |-> FALSE]
NoOutput == [nodes |-> << >>, connections |-> << >>]

\* the idle values of the parts a specification does not exercise
CanvasIdle ==
  /\ comp = "none" /\ phase = "idle" /\ viewport = 0 /\ dimensions = 0
  /\ pendingDims = NoDims /\ canvasSize = 0 /\ resizeListener = FALSE
  /\ rafQueue = {} /\ animationRef = 0 /\ nextId = 1 /\ hasCleanup = FALSE
  /\ closures = << >> /\ prevNodes = << >> /\ frameLog = NoFrame

BuilderIdle == call = "none" /\ input = [kind |-> "none"] /\ output = NoOutput

AnimIdle ==
  /\ animator = "none" /\ scene = [none |-> TRUE] /\ clock = 0
  /\ buffers = [none |-> TRUE] /\ animLog = [ran |-> FALSE]

NoEvent == [event |-> "none"]

UiIdle == widget = "none" /\ ui = [none |-> TRUE] /\ uiLog = NoEvent

CInit ==
  /\ comp \in CanvasComponents
  /\ phase = "rendered"
  /\ viewport \in Sizes
  /\ dimensions = 0
  /\ pendingDims = NoDims
  /\ canvasSize = 0
  /\ resizeListener = FALSE
  /\ rafQueue = {}
  /\ animationRef = 0
  /\ nextId = 1
  /\ hasCleanup = FALSE
  /\ closures = << >>
  /\ prevNodes = << >>
  /\ frameLog = NoFrame
  /\ BuilderIdle
  /\ AnimIdle
  /\ UiIdle

\* The first run of the effects after the first render.
\* AppDostPrecision / GeometricNetwork: the first effect calls updateDimensions()
\* and registers the listeners; the animation effect sees dimensions = {0, 0} and
\* returns early.  Canvas2DRingNetwork: the single effect sizes the canvas,
\* registers the listener, creates the nodes and calls animate(0).
MountEffects ==
  /\ phase = "rendered"
  /\ phase' = "mounted"
  /\ resizeListener' = TRUE
  /\ IF comp \in StatefulComponents
     THEN /\ pendingDims' = viewport
          /\ UNCHANGED <<canvasSize, rafQueue, animationRef, nextId, closures, hasCleanup>>
     ELSE /\ canvasSize' = viewport
          /\ closures' = << [nodesFor |-> viewport, nodes |-> RingNodes(viewport)] >>
          /\ rafQueue' = {[id |-> nextId, loop |-> 1]}
          /\ animationRef' = nextId
          /\ nextId' = nextId + 1
          /\ hasCleanup' = TRUE
          /\ UNCHANGED pendingDims
  /\ UNCHANGED <<comp, viewport, dimensions, prevNodes, frameLog>>
  /\ UNCHANGED <<bvars, avars, uvars>>

\* The window is resized: the browser fires 'resize' at the registered listeners.
\* updateDimensions queues a state update; updateSize resizes the canvas only.
Resize ==
  /\ phase # "rendered"
  /\ \E s \in Sizes \ {viewport} :
       /\ viewport' = s
       /\ IF resizeListener /\ comp \notin StatefulComponents
          THEN canvasSize' = s /\ UNCHANGED pendingDims
          ELSE IF resizeListener /\ phase = "mounted"
               THEN pendingDims' = s /\ UNCHANGED canvasSize
               ELSE UNCHANGED <<pendingDims, canvasSize>>
  /\ UNCHANGED <<comp, phase, dimensions, resizeListener, rafQueue, animationRef,
                 nextId, hasCleanup, closures, prevNodes, frameLog>>
  /\ UNCHANGED <<bvars, avars, uvars>>

\* React renders the queued dimensions and re-runs the animation effect
\* ([dimensions] changed): the previous run's cleanup first, then the body, which
\* returns early for a zero size and otherwise sizes the canvas, generates the
\* nodes and calls animate() once, synchronously.
Commit ==
  /\ phase = "mounted"
  /\ comp \in StatefulComponents
  /\ pendingDims # NoDims
  /\ nextId < MaxRaf
  /\ dimensions' = pendingDims
  /\ pendingDims' = NoDims
  /\ LET cleaned == IF hasCleanup THEN EffectCleanup(rafQueue, animationRef) ELSE rafQueue
         fresh == Generate(comp, pendingDims)
     IN IF pendingDims = 0
        THEN /\ rafQueue' = cleaned
             /\ hasCleanup' = FALSE
             /\ UNCHANGED <<canvasSize, animationRef, nextId, closures, prevNodes>>
        ELSE /\ canvasSize' = pendingDims
             /\ closures' = Append(closures, [nodesFor |-> pendingDims,
                                              nodes |-> UpdateNodes(comp, fresh)])
             /\ prevNodes' = fresh
             /\ rafQueue' = cleaned \cup {[id |-> nextId, loop |-> Len(closures) + 1]}
             /\ animationRef' = nextId
             /\ nextId' = nextId + 1
             /\ hasCleanup' = TRUE
  /\ UNCHANGED <<comp, phase, viewport, resizeListener, frameLog>>
  /\ UNCHANGED <<bvars, avars, uvars>>

\* The host runs one pending animation-frame callback.  A host drawing call may
\* throw: "clear" is the fillRect before the node update, "draw" a call after
\* it.  animate has no try/catch: the exception leaves the callback and the
\* next frame is not requested.
FrameWithin(limit) ==
  /\ nextId < limit
  /\ \E cb \in rafQueue, fault \in {"none", "clear", "draw"} :
       LET cl == closures[cb.loop]
           moved == IF fault = "clear" THEN cl.nodes ELSE UpdateNodes(comp, cl.nodes)
       IN /\ closures' = [closures EXCEPT ![cb.loop].nodes = moved]
          /\ prevNodes' = cl.nodes
          /\ frameLog' = [ran |-> TRUE, loop |-> cb.loop, fault |-> fault,
                          propagated |-> fault # "none",
                          afterUnmount |-> phase = "unmounted",
                          nodesFor |-> cl.nodesFor]
          /\ IF fault = "none"
             THEN /\ rafQueue' = (rafQueue \ {cb}) \cup {[id |-> nextId, loop |-> cb.loop]}
                  /\ animationRef' = nextId
                  /\ nextId' = nextId + 1
             ELSE /\ rafQueue' = rafQueue \ {cb}
                  /\ UNCHANGED <<animationRef, nextId>>
  /\ UNCHANGED <<comp, phase, viewport, dimensions, pendingDims, canvasSize,
                 resizeListener, hasCleanup>>
  /\ UNCHANGED <<bvars, avars, uvars>>

Frame == FrameWithin(MaxRaf)

\* The component unmounts: React runs the cleanups of its effects, in one pass.
Unmount ==
  /\ phase = "mounted"
  /\ phase' = "unmounted"
  /\ resizeListener' = RemoveResizeListener(resizeListener)
  /\ rafQueue' = IF comp \in StatefulComponents
                 THEN IF hasCleanup THEN EffectCleanup(rafQueue, animationRef) ELSE rafQueue
                 ELSE CancelFrame(rafQueue, animationRef)
  /\ hasCleanup' = FALSE
  /\ pendingDims' = NoDims
  /\ UNCHANGED <<comp, viewport, dimensions, canvasSize, animationRef, nextId,
                 closures, prevNodes, frameLog>>
  /\ UNCHANGED <<bvars, avars, uvars>>

CNext == MountEffects \/ Resize \/ Commit \/ Frame \/ Unmount

SpecCanvas == CInit /\ [][CNext]_vars

\* A component left mounted at one viewport size: the state after the animation
\* effect has run for that size, and from there frame after frame.
LoopInit ==
  /\ comp \in StatefulComponents
  /\ phase = "mounted"
  /\ viewport \in Sizes \ {0}
  /\ dimensions = viewport
  /\ pendingDims = NoDims
  /\ canvasSize = viewport
  /\ resizeListener = TRUE
  /\ rafQueue = {[id |-> 1, loop |-> 1]}
  /\ animationRef = 1
  /\ nextId = 2
  /\ hasCleanup = TRUE
  /\ closures = << [nodesFor |-> viewport,
                    nodes |-> UpdateNodes(comp, Generate(comp, viewport))] >>
  /\ prevNodes = Generate(comp, viewport)
  /\ frameLog = NoFrame
  /\ BuilderIdle
  /\ AnimIdle
  /\ UiIdle

LoopFrame == FrameWithin(MaxFrames)

SpecFrames == LoopInit /\ [][LoopFrame]_vars

(* C15: while a component stays mounted at one viewport size, every frame   *)
(* has the node count of the generation and draws the set of edges that the  *)
(* generated nodes had.                                                      *)
C15_TopologyFixed ==
  (frameLog.ran /\ frameLog.fault = "none") =>
    LET cl == closures[frameLog.loop]
        generated == Generate(comp, cl.nodesFor)
    IN /\ Len(cl.nodes) = Len(generated)
       /\ DrawnEdges(comp, cl.nodes) = DrawnEdges(comp, generated)

(* C1: once a canvas component is unmounted, no animation-frame callback it *)
(* scheduled is pending, its resize listener is gone, and no frame of it     *)
(* has run after the unmount, whatever frames and resizes came before.       *)
C1_NoDanglingCallbacks ==
  phase = "unmounted" =>
    /\ rafQueue = {}
    /\ ~resizeListener
    /\ (frameLog.ran => ~frameLog.afterUnmount)

\* unmounted after a resize replaced the animation loop and frames ran
C1_Witness ==
  /\ phase = "unmounted"
  /\ comp = "AppDostPrecision"
  /\ Len(closures) >= 2
  /\ frameLog.ran

(* C5: once a mounted component has processed a change of the viewport      *)
(* size, every frame still to run draws nodes generated for the new size.    *)
C5_NodesForViewport ==
  (phase = "mounted" /\ pendingDims = NoDims /\ viewport # 0) =>
    \A cb \in rafQueue : closures[cb.loop].nodesFor = viewport

(* C6: across resizes at most one animation loop is live: at most one       *)
(* callback is pending and it belongs to the loop created last, the         *)
(* callback and nodes of the previous size having been released first.      *)
C6_OneLoop ==
  /\ Cardinality(rafQueue) <= 1
  /\ \A cb \in rafQueue : cb.loop = Len(closures)

\* a resize has replaced the loop of a mounted component and a callback is pending
C6_Witness ==
  /\ comp \in StatefulComponents
  /\ phase = "mounted"
  /\ Len(closures) >= 2
  /\ rafQueue # {}

(* C7: a frame that faults part-way does not propagate the fault to the     *)
(* host and leaves the nodes as they were at the end of the previous frame.  *)
C7_FaultContained ==
  (frameLog.ran /\ frameLog.fault # "none") =>
    /\ ~frameLog.propagated
    /\ closures[frameLog.loop].nodes = prevNodes

(* C18: the node updates and the edge updates of a frame are independent:   *)
(* drawing the edges before the nodes are moved (from the positions the      *)
(* frame started with) gives the set of edges that drawing them after gives. *)
C18_OrderIndependent ==
  (frameLog.ran /\ frameLog.fault = "none") =>
    DrawnEdges(comp, prevNodes) = DrawnEdges(comp, closures[frameLog.loop].nodes)

----------------------------------------------------------------------------
(* Connectivity builders on a node list.  Positions are points of a line,   *)
(* 0..MaxCoord, and the distance of two nodes is the distance of their      *)
(* points; node indices are 0-based as in the source.                       *)

Points == 0..MaxCoord

Distance(a, b) == IF a >= b THEN a - b ELSE b - a

EdgeStart(e) == IF "start" \in DOMAIN e THEN e.start ELSE e.startIndex
EdgeEnd(e) == IF "end" \in DOMAIN e THEN e.end ELSE e.endIndex

\* connections.some(conn => (conn.start === i && conn.end === j) ||
\*                          (conn.start === j && conn.end === i))
connectionExists(conns, i, j) ==
  \E k \in 1..Len(conns) :
     \/ (conns[k].start = i /\ conns[k].end = j)
     \/ (conns[k].start = j /\ conns[k].end = i)

\* generateConfigurableNetwork: the inner nodes.forEach((otherNode, j) => ...)
\* for node i, from j on, with connectionCount = count
RECURSIVE ConfigurableInner(_, _, _, _, _, _, _)
ConfigurableInner(nodes, D, K, i, j, count, conns) ==
  IF j >= Len(nodes) THEN conns
  ELSE LET distance == Distance(nodes[i + 1], nodes[j + 1])
           add == /\ i # j /\ count < K
                  /\ distance < D
                  /\ ~connectionExists(conns, i, j)
       IN ConfigurableInner(nodes, D, K, i, j + 1,
                            IF add THEN count + 1 ELSE count,
                            IF add THEN Append(conns, [start |-> i, end |-> j,
                                                       distance |-> distance])
                                   ELSE conns)

RECURSIVE ConfigurableOuter(_, _, _, _, _)
ConfigurableOuter(nodes, D, K, i, conns) ==
  IF i >= Len(nodes) THEN conns
  ELSE ConfigurableOuter(nodes, D, K, i + 1,
                         ConfigurableInner(nodes, D, K, i, 0, 0, conns))

\* the connection loop of generateConfigurableNetwork(…, connectionDistance,
\* maxConnections); connectionLines gets one entry per entry of connections
ConfigurableConnections(nodes, D, K) == ConfigurableOuter(nodes, D, K, 0, << >>)

\* the strength the other way round: the farther, the stronger
Strength_Inverted(distance, D) == [num |-> distance, den |-> D]

\* const strength = 1.0 - (distance / maxConnectionDistance), as the fraction
\* num / den
Strength(distance, D) == [num |-> D - distance, den |-> D]

\* AppDostSphere: const alpha = 0.4 + strength * 0.6, as a fraction
LineAlpha(strength) ==
  [num |-> 4 * strength.den + 6 * strength.num, den |-> 10 * strength.den]

\* CinematicPlexusNetwork: the same double loop without the existence check
RECURSIVE CinematicInner(_, _, _, _, _, _, _)
CinematicInner(nodes, D, K, i, j, count, conns) ==
  IF j >= Len(nodes) THEN conns
  ELSE LET distance == Distance(nodes[i + 1], nodes[j + 1])
           add == i # j /\ count < K /\ distance < D
       IN CinematicInner(nodes, D, K, i, j + 1,
                         IF add THEN count + 1 ELSE count,
                         IF add THEN Append(conns, [startIndex |-> i, endIndex |-> j,
                                                    distance |-> distance,
                                                    strength |-> Strength(distance, D),
                                                    threshold |-> D])
                                ELSE conns)

RECURSIVE CinematicOuter(_, _, _, _, _)
CinematicOuter(nodes, D, K, i, conns) ==
  IF i >= Len(nodes) THEN conns
  ELSE CinematicOuter(nodes, D, K, i + 1, CinematicInner(nodes, D, K, i, 0, 0, conns))

CinematicConnections(nodes, D, K) == CinematicOuter(nodes, D, K, 0, << >>)

\* PerfectFullScreenPlexus: per node, the other nodes with their distances ...
OtherDistances(nodes, i) ==
  LET all == [j \in 1..Len(nodes) |->
                [index |-> j - 1, distance |-> Distance(nodes[i + 1], nodes[j])]]
  IN SelectSeq(all, LAMBDA item : item.index # i)

\* ... sorted by distance (Array.prototype.sort is stable) ...
RECURSIVE InsertByDistance(_, _)
InsertByDistance(sorted, item) ==
  IF sorted = << >> THEN << item >>
  ELSE IF sorted[Len(sorted)].distance <= item.distance
       THEN Append(sorted, item)
       ELSE Append(InsertByDistance(SubSeq(sorted, 1, Len(sorted) - 1), item),
                   sorted[Len(sorted)])

RECURSIVE SortByDistance(_)
SortByDistance(items) ==
  IF items = << >> THEN << >>
  ELSE InsertByDistance(SortByDistance(SubSeq(items, 1, Len(items) - 1)),
                        items[Len(items)])

\* ... and the closest ones connected while connectionCount < maxConnections
RECURSIVE FullScreenTake(_, _, _, _, _, _)
FullScreenTake(distances, D, K, i, count, conns) ==
  IF distances = << >> THEN conns
  ELSE LET item == Head(distances)
           add == count < K /\ item.distance < D
       IN FullScreenTake(Tail(distances), D, K, i,
                         IF add THEN count + 1 ELSE count,
                         IF add THEN Append(conns, [startIndex |-> i,
                                                    endIndex |-> item.index,
                                                    distance |-> item.distance,
                                                    strength |-> Strength(item.distance, D),
                                                    threshold |-> D])
                                ELSE conns)

RECURSIVE FullScreenOuter(_, _, _, _, _)
FullScreenOuter(nodes, D, K, i, conns) ==
  IF i >= Len(nodes) THEN conns
  ELSE FullScreenOuter(nodes, D, K, i + 1,
                       FullScreenTake(SortByDistance(OtherDistances(nodes, i)),
                                      D, K, i, 0, conns))

\* the distance test the wrong way round: far nodes connected, near ones not
FullScreenConnections_FarOnly(nodes, D, K) ==
  FullScreenOuter(nodes, (MaxCoord + 1) - D, K, 0, << >>)

FullScreenConnections(nodes, D, K) == FullScreenOuter(nodes, D, K, 0, << >>)

\* AppDostSphere: for (i) for (j = i + 1; ...) if (distance < maxDistance)
\* connections.push(i, j), with two line vertices and two alphas for the pair
RECURSIVE SphereInner(_, _, _, _, _)
SphereInner(nodes, D, i, j, conns) ==
  IF j >= Len(nodes) THEN conns
  ELSE LET distance == Distance(nodes[i + 1], nodes[j + 1])
       IN SphereInner(nodes, D, i, j + 1,
                      IF distance < D
                      THEN Append(conns, [startIndex |-> i, endIndex |-> j,
                                          distance |-> distance,
                                          alpha |-> LineAlpha(Strength(distance, D)),
                                          threshold |-> D])
                      ELSE conns)

RECURSIVE SphereOuter(_, _, _, _)
SphereOuter(nodes, D, i, conns) ==
  IF i >= Len(nodes) THEN conns
  ELSE SphereOuter(nodes, D, i + 1, SphereInner(nodes, D, i, i + 1, conns))

SphereConnections(nodes, D) == SphereOuter(nodes, D, 0, << >>)

\* generateFracturedNetwork: distances and connectionDistance are in tenths;
\* Math.random() * 0.4 comes out as jit[..] tenths, one draw for each pair tested.
\* The loops return the connections and the number of draws made so far.
JitterAt(jit, k) == jit[(k % Len(jit)) + 1]

RECURSIVE FracturedInner(_, _, _, _, _, _, _)
FracturedInner(nodes, D, jit, i, j, count, acc) ==
  IF j >= Len(nodes) THEN acc
  ELSE LET tested == i # j /\ count < fracturedMaxConnections
           distance == Distance(nodes[i + 1], nodes[j + 1])
           dynamicDistance == D + JitterAt(jit, acc.draws)
           add == /\ tested
                  /\ distance < dynamicDistance
                  /\ ~connectionExists(acc.conns, i, j)
       IN FracturedInner(nodes, D, jit, i, j + 1,
                         IF add THEN count + 1 ELSE count,
                         [conns |-> IF add THEN Append(acc.conns,
                                                  [start |-> i, end |-> j,
                                                   distance |-> distance])
                                    ELSE acc.conns,
                          draws |-> IF tested THEN acc.draws + 1 ELSE acc.draws])

RECURSIVE FracturedOuter(_, _, _, _, _)
FracturedOuter(nodes, D, jit, i, acc) ==
  IF i >= Len(nodes) THEN acc
  ELSE FracturedOuter(nodes, D, jit, i + 1, FracturedInner(nodes, D, jit, i, 0, 0, acc))

FracturedConnections(nodes, D, jit) ==
  FracturedOuter(nodes, D, jit, 0, [conns |-> << >>, draws |-> 0]).conns

\* what Math.random() * 0.4 can come to, in tenths: from 0 up to, not
\* including, 0.4; the draws taken are the two ends of that range
Jitters == [1..JitPeriod -> {0, jitterTenths - 1}]

Thresholds == -1..MaxD

NodeLists == UNION {[1..n -> Points] : n \in 0..MaxNodes}

ConnectInit ==
  /\ CanvasIdle
  /\ AnimIdle
  /\ UiIdle
  /\ call = "none"
  /\ input \in [kind : {"connect"}, nodes : NodeLists, D : Thresholds, K : 0..MaxK]
  /\ output = NoOutput

ConnectConfigurable ==
  /\ call = "none" /\ input.kind = "connect"
  /\ call' = "generateConfigurableNetwork"
  /\ output' = [nodes |-> input.nodes,
                connections |-> ConfigurableConnections(input.nodes, input.D, input.K)]
  /\ UNCHANGED <<input, cvars, avars, uvars>>

ConnectFullScreen ==
  /\ call = "none" /\ input.kind = "connect"
  /\ call' = "PerfectFullScreenPlexus"
  /\ output' = [nodes |-> input.nodes,
                connections |-> FullScreenConnections(input.nodes, input.D, input.K)]
  /\ UNCHANGED <<input, cvars, avars, uvars>>

ConnectCinematic ==
  /\ call = "none" /\ input.kind = "connect"
  /\ call' = "CinematicPlexusNetwork"
  /\ output' = [nodes |-> input.nodes,
                connections |-> CinematicConnections(input.nodes, input.D, input.K)]
  /\ UNCHANGED <<input, cvars, avars, uvars>>

\* generateFracturedNetwork(nodeCount, connectionDistance): no cap parameter
ConnectFractured ==
  /\ call = "none" /\ input.kind = "connect"
  /\ \E jit \in Jitters :
       /\ call' = "generateFracturedNetwork"
       /\ output' = [nodes |-> input.nodes,
                     connections |-> FracturedConnections(input.nodes, input.D, jit)]
  /\ UNCHANGED <<input, cvars, avars, uvars>>

\* AppDostSphere useMemo: the threshold maxDistance is the only parameter
ConnectSphere ==
  /\ call = "none" /\ input.kind = "connect"
  /\ call' = "AppDostSphere"
  /\ output' = [nodes |-> input.nodes,
                connections |-> SphereConnections(input.nodes, input.D)]
  /\ UNCHANGED <<input, cvars, avars, uvars>>

ConnectNext ==
  \/ ConnectConfigurable
  \/ ConnectFullScreen
  \/ ConnectCinematic
  \/ ConnectFractured
  \/ ConnectSphere

SpecConnect == ConnectInit /\ [][ConnectNext]_vars

----------------------------------------------------------------------------
(* Properties of an edge list *)

NoSelfEdge(conns) == \A k \in 1..Len(conns) : EdgeStart(conns[k]) # EdgeEnd(conns[k])

SamePair(e, f) ==
  \/ (EdgeStart(e) = EdgeStart(f) /\ EdgeEnd(e) = EdgeEnd(f))
  \/ (EdgeStart(e) = EdgeEnd(f) /\ EdgeEnd(e) = EdgeStart(f))

NoDuplicatePair(conns) ==
  \A k, l \in 1..Len(conns) : k # l => ~SamePair(conns[k], conns[l])

\* the number of edges of conns in which node n is an endpoint
Degree(conns, n) ==
  Cardinality({k \in 1..Len(conns) : EdgeStart(conns[k]) = n \/ EdgeEnd(conns[k]) = n})

DistanceBuilders ==
  {"generateConfigurableNetwork", "PerfectFullScreenPlexus", "CinematicPlexusNetwork"}

\* C2: the edge list of a distance-threshold builder has no self-edge and no
\* unordered pair of nodes twice, for every node list and threshold.
C2_NoSelfNoDuplicate ==
  call \in DistanceBuilders =>
    NoSelfEdge(output.connections) /\ NoDuplicatePair(output.connections)

\* C10: in the edge list of a degree-capped builder with cap K every node is an
\* endpoint of at most K edges.
C10_DegreeWithinCap ==
  call \in {"generateConfigurableNetwork", "CinematicPlexusNetwork"} =>
    \A n \in 0..(Len(output.nodes) - 1) : Degree(output.connections, n) <= input.K

\* the edge list a builder returns for a node list, threshold and cap
BuilderConnections(builder, nodes, D, K) ==
  CASE builder = "generateConfigurableNetwork" -> ConfigurableConnections(nodes, D, K)
    [] builder = "PerfectFullScreenPlexus" -> FullScreenConnections(nodes, D, K)
    [] builder = "CinematicPlexusNetwork" -> CinematicConnections(nodes, D, K)

(* C11: with the node list and the cap fixed, a builder run with a smaller  *)
(* threshold never builds more edges than the run with the larger one.      *)
C11_MonotonicInThreshold ==
  call \in {"generateConfigurableNetwork", "PerfectFullScreenPlexus"} =>
    \A D1 \in Thresholds :
       D1 <= input.D =>
         Len(BuilderConnections(call, input.nodes, D1, input.K)) <= Len(output.connections)

\* a run in which raising the threshold did add edges, with the cap in force
C11_Witness ==
  /\ call = "PerfectFullScreenPlexus"
  /\ input.D >= 2 /\ input.K >= 1 /\ Len(input.nodes) = MaxNodes
  /\ Len(FullScreenConnections(input.nodes, 1, input.K)) < Len(output.connections)
  /\ \E n \in 0..(Len(input.nodes) - 1) :
        Cardinality({j \in 0..(Len(input.nodes) - 1) :
           j # n /\ Distance(input.nodes[n + 1], input.nodes[j + 1]) < input.D}) > input.K

(* C12: called with a threshold D <= 0 or a cap K <= 0 the builder returns  *)
(* an empty edge list, whatever the node list.                               *)
C12_DegenerateIsEmpty ==
  /\ (call = "generateConfigurableNetwork" /\ (input.D <= 0 \/ input.K <= 0)) =>
       output.connections = << >>
  /\ (call = "generateFracturedNetwork" /\ input.D <= 0) =>
       output.connections = << >>

\* the distance between the two nodes an edge joins
EdgeLength(nodes, e) == Distance(nodes[EdgeStart(e) + 1], nodes[EdgeEnd(e) + 1])

----------------------------------------------------------------------------
(* Structural-rule ring builders.  An edge joins two ring nodes, named by   *)
(* their ring index (the hub of ProfessionalNetworkSystem is Hub).  The     *)
(* outcomes of the Math.random() calls are an input: call number k (from 0) *)
(* is accepted when rnd[(k % Len(rnd)) + 1] holds.                          *)

Hub == -1

Accept(rnd, k) == rnd[(k % Len(rnd)) + 1]

Maybe(cond, edge) == IF cond THEN << edge >> ELSE << >>

RECURSIVE Concat(_, _, _)
\* f(0) \o f(1) \o ... \o f(n - 1), the pushes of a forEach over n nodes
Concat(f(_), i, n) == IF i >= n THEN << >> ELSE f(i) \o Concat(f, i + 1, n)

\* the next index without the wrap to 0 at the end of the ring
NextIndex_NoWrap(index, N) == index + 1

\* const nextIndex = (index + 1) % nodes.length
NextIndex(index, N) == (index + 1) % N

\* SimpleRingNetwork: the ring edge of every node, and from every third node
\* the edge across
SimpleRingConnections(N) ==
  LET f(index) ==
        << [start |-> index, end |-> NextIndex(index, N), rule |-> "next"] >>
        \o Maybe(index % 3 = 0,
                 [start |-> index, end |-> (index + (N \div 2)) % N, rule |-> "across"])
  IN Concat(f, 0, N)

\* Canvas2DRingNetwork animate: the lines one frame strokes, in order
CanvasRingLines(N) ==
  LET f(index) ==
        << [start |-> index, end |-> NextIndex(index, N), alpha |-> 60,
            rule |-> "next"] >>
        \o Maybe(index % 3 = 0,
                 [start |-> index, end |-> (index + (N \div 2)) % N, alpha |-> 30,
                  rule |-> "across"])
  IN Concat(f, 0, N)

\* PerfectAppDostNetwork: mainRingNodes.forEach((node, index) => ...)
PerfectNodeEdges(N, rnd, index) ==
  << [start |-> index, end |-> NextIndex(index, N), intensity |-> 100, rule |-> "next"],
     [start |-> index, end |-> (index + (N \div 2)) % N, intensity |-> 70,
      rule |-> "across"] >>
  \o Maybe(Accept(rnd, 3 * index),
           [start |-> index, end |-> (index + (N \div 3)) % N, intensity |-> 50,
            rule |-> "third"])
  \o Maybe(Accept(rnd, 3 * index + 1),
           [start |-> index, end |-> (index + ((2 * N) \div 3)) % N, intensity |-> 40,
            rule |-> "third"])
  \o Maybe(Accept(rnd, 3 * index + 2),
           [start |-> index, end |-> (index + 2) % N, intensity |-> 60,
            rule |-> "near"])

PerfectAppDostConnections(N, rnd) ==
  LET f(index) == PerfectNodeEdges(N, rnd, index) IN Concat(f, 0, N)

\* Math.round(nodeCount / 1.618)
GoldenStep(N) == (2000 * N + 1618) \div 3236

\* ProfessionalNetworkSystem: hub spokes, perimeter, golden-ratio cross
\* connections, triangles from every third node
ProfessionalConnections(N, rnd) ==
  LET step == GoldenStep(N)
      spoke(index) == << [start |-> Hub, end |-> index, type |-> "primary"] >>
      perimeter(index) ==
        << [start |-> index, end |-> (index + 1) % N, type |-> "secondary"] >>
      cross(index) ==
        Maybe(Accept(rnd, 2 * index),
              [start |-> index, end |-> (index + step) % N, type |-> "tertiary"])
        \o Maybe(Accept(rnd, 2 * index + 1),
                 [start |-> index, end |-> (index + (N - step)) % N, type |-> "tertiary"])
      triangle(index) ==
        Maybe(index % 3 = 0,
              [start |-> index, end |-> (index + (N \div 3)) % N, type |-> "tertiary"])
  IN Concat(spoke, 0, N) \o Concat(perimeter, 0, N)
     \o Concat(cross, 0, N) \o Concat(triangle, 0, N)

\* AppDostCircleNetwork: perimeter, every third diameter, triangular web,
\* nearby connections 2, 3 and 4 positions away
ExactConnections(N, rnd) ==
  LET perimeter(index) ==
        << [start |-> index, end |-> (index + 1) % N, intensity |-> 80] >>
      diameter(index) ==
        Maybe(index % 3 = 0,
              [start |-> index, end |-> (index + (N \div 2)) % N, intensity |-> 60])
      web(index) ==
        Maybe(Accept(rnd, 2 * index),
              [start |-> index, end |-> (index + (N \div 3)) % N, intensity |-> 40])
        \o Maybe(Accept(rnd, 2 * index + 1),
                 [start |-> index, end |-> (index + ((2 * N) \div 3)) % N,
                  intensity |-> 40])
      near(index) ==
        Maybe(Accept(rnd, 2 * N + 3 * index),
              [start |-> index, end |-> (index + 2) % N, intensity |-> 30])
        \o Maybe(Accept(rnd, 2 * N + 3 * index + 1),
                 [start |-> index, end |-> (index + 3) % N, intensity |-> 30])
        \o Maybe(Accept(rnd, 2 * N + 3 * index + 2),
                 [start |-> index, end |-> (index + 4) % N, intensity |-> 30])
  IN Concat(perimeter, 0, N) \o Concat(diameter, 0, N)
     \o Concat(web, 0, N) \o Concat(near, 0, N)

\* AppDostCircularNetwork: node 0 is the centre, then the rings inner, middle
\* and outer of circularRings[r] nodes each; an edge names its two nodes by
\* their index in networkNodes
circularRings == << 12, 20, 32 >>

\* the index in networkNodes of node i of ring r (r from 1)
RingBase(r) ==
  IF r = 1 THEN 1
  ELSE IF r = 2 THEN 1 + circularRings[1]
  ELSE 1 + circularRings[1] + circularRings[2]
\* counting the ring's nodes from 1 where networkNodes counts them from 0
CircularNode_FromOne(r, i) == RingBase(r) + i + 1

CircularNode(r, i) == RingBase(r) + i

CircularNodes ==
  << [id |-> "center"] >>
  \o [i \in 1..circularRings[1] |-> [id |-> "inner", i |-> i - 1]]
  \o [i \in 1..circularRings[2] |-> [id |-> "middle", i |-> i - 1]]
  \o [i \in 1..circularRings[3] |-> [id |-> "outer", i |-> i - 1]]

\* minAngleDiff of inner node i and middle node m, in 1 / (12 * 20) turns
MinAngleDiff(i, m) ==
  LET turn == circularRings[1] * circularRings[2]
      a == circularRings[2] * i
      b == circularRings[1] * m
      angleDiff == IF a >= b THEN a - b ELSE b - a
  IN IF angleDiff <= turn - angleDiff THEN angleDiff ELSE turn - angleDiff

\* allRingNodes[1].reduce(...): the first middle node with the least minAngleDiff
ClosestMiddle(i) ==
  CHOOSE m \in 0..(circularRings[2] - 1) :
    \A m2 \in 0..(circularRings[2] - 1) :
       \/ MinAngleDiff(i, m) < MinAngleDiff(i, m2)
       \/ (MinAngleDiff(i, m) = MinAngleDiff(i, m2) /\ m <= m2)

CircularConnections(rnd) ==
  LET spoke(index) ==
        << [start |-> 0, end |-> CircularNode(1, index), intensity |-> 100] >>
      toMiddle(index) ==
        << [start |-> CircularNode(1, index),
            end |-> CircularNode(2, ClosestMiddle(index)), intensity |-> 80] >>
      target(index, offset) ==
        (index * circularRings[3]) \div circularRings[2] + offset
      outerEdge(index, offset) ==
        Maybe(target(index, offset) < circularRings[3],
              [start |-> CircularNode(2, index),
               end |-> CircularNode(3, target(index, offset) % circularRings[3]),
               intensity |-> 60 - 10 * offset])
      toOuter(index) == outerEdge(index, 0) \o outerEdge(index, 1) \o outerEdge(index, 2)
      \* draws made before ring r: two for every node of the rings before it
      drawsBefore(r) == IF r = 1 THEN 0
                        ELSE IF r = 2 THEN 2 * circularRings[1]
                        ELSE 2 * (circularRings[1] + circularRings[2])
      near(r, index, offset) ==
        Maybe(Accept(rnd, drawsBefore(r) + 2 * index + (offset - 1)),
              [start |-> CircularNode(r, index),
               end |-> CircularNode(r, (index + offset) % circularRings[r]),
               intensity |-> 40 - 5 * (r - 1)])
      web1(index) == near(1, index, 1) \o near(1, index, 2)
      web2(index) == near(2, index, 1) \o near(2, index, 2)
      web3(index) == near(3, index, 1) \o near(3, index, 2)
  IN Concat(spoke, 0, circularRings[1]) \o Concat(toMiddle, 0, circularRings[1])
     \o Concat(toOuter, 0, circularRings[2])
     \o Concat(web1, 0, circularRings[1]) \o Concat(web2, 0, circularRings[2])
     \o Concat(web3, 0, circularRings[3])

RingNodeList(N) == [i \in 1..N |-> i - 1]

RingInit ==
  /\ CanvasIdle
  /\ AnimIdle
  /\ UiIdle
  /\ call = "none"
  /\ input \in [kind : {"ring"}, rnd : [1..RndPeriod -> BOOLEAN]]
  /\ output = NoOutput

BuildPerfectAppDost ==
  /\ call = "none" /\ input.kind = "ring"
  /\ call' = "PerfectAppDostNetwork"
  /\ output' = [nodes |-> RingNodeList(perfectNodeCount),
                connections |-> PerfectAppDostConnections(perfectNodeCount, input.rnd)]
  /\ UNCHANGED <<input, cvars, avars, uvars>>

BuildProfessional ==
  /\ call = "none" /\ input.kind = "ring"
  /\ call' = "ProfessionalNetworkSystem"
  /\ output' = [nodes |-> << Hub >> \o RingNodeList(professionalNodeCount),
                connections |-> ProfessionalConnections(professionalNodeCount, input.rnd)]
  /\ UNCHANGED <<input, cvars, avars, uvars>>

BuildExact ==
  /\ call = "none" /\ input.kind = "ring"
  /\ call' = "AppDostCircleNetwork"
  /\ output' = [nodes |-> RingNodeList(exactNodeCount),
                connections |-> ExactConnections(exactNodeCount, input.rnd)]
  /\ UNCHANGED <<input, cvars, avars, uvars>>

BuildCircular ==
  /\ call = "none" /\ input.kind = "ring"
  /\ call' = "AppDostCircularNetwork"
  /\ output' = [nodes |-> CircularNodes, connections |-> CircularConnections(input.rnd)]
  /\ UNCHANGED <<input, cvars, avars, uvars>>

BuildSimpleRing ==
  /\ call = "none" /\ input.kind = "ring"
  /\ call' = "SimpleRingNetwork"
  /\ output' = [nodes |-> RingNodeList(simpleNodeCount),
                connections |-> SimpleRingConnections(simpleNodeCount)]
  /\ UNCHANGED <<input, cvars, avars, uvars>>

\* the connection pass of one call of Canvas2DRingNetwork's animate
DrawCanvasRing ==
  /\ call = "none" /\ input.kind = "ring"
  /\ call' = "Canvas2DRingNetwork"
  /\ output' = [nodes |-> RingNodeList(nodeCount),
                connections |-> CanvasRingLines(nodeCount)]
  /\ UNCHANGED <<input, cvars, avars, uvars>>

RingNext ==
  \/ BuildPerfectAppDost
  \/ BuildProfessional
  \/ BuildExact
  \/ BuildCircular
  \/ BuildSimpleRing
  \/ DrawCanvasRing

SpecRing == RingInit /\ [][RingNext]_vars

\* every builder of an edge list, on every input
BuildInit == ConnectInit \/ RingInit

BuildNext == ConnectNext \/ RingNext

SpecBuild == BuildInit /\ [][BuildNext]_vars

(* C16: both endpoints of every edge of a generated edge list are indices   *)
(* into the generated node array, 0 <= index < node count, from generation   *)
(* on.                                                                       *)
C16_ValidEndpoints ==
  call \in {"AppDostSphere", "AppDostCircularNetwork", "PerfectFullScreenPlexus"} =>
    \A k \in 1..Len(output.connections) :
       /\ EdgeStart(output.connections[k]) \in 0..(Len(output.nodes) - 1)
       /\ EdgeEnd(output.connections[k]) \in 0..(Len(output.nodes) - 1)

\* the circular network built, with an edge that ends at the last node
C16_Witness ==
  /\ call = "AppDostCircularNetwork"
  /\ \E k \in 1..Len(output.connections) :
        EdgeEnd(output.connections[k]) = Len(output.nodes) - 1

\* the edges of the ring-adjacency rule, in the order built
AdjacentEdges(conns) == SelectSeq(conns, LAMBDA e : e.rule = "next")

\* the node reached from node 0 after k adjacent-ring edges
RECURSIVE Along(_, _)
Along(adj, k) ==
  IF k = 0 THEN 0
  ELSE LET from == Along(adj, k - 1)
       IN IF \E e \in 1..Len(adj) : adj[e].start = from
          THEN adj[CHOOSE e \in 1..Len(adj) : adj[e].start = from].end
          ELSE from

(* C19: the ring-adjacency rule on a ring of N nodes gives exactly N        *)
(* adjacent-ring edges, one starting at each node, and following them from   *)
(* node 0 passes through all N nodes and comes back to node 0.               *)
C19_RingIsOneCycle ==
  call \in {"PerfectAppDostNetwork", "SimpleRingNetwork", "Canvas2DRingNetwork"} =>
    LET adj == AdjacentEdges(output.connections)
        N == Len(output.nodes)
    IN /\ Len(adj) = N
       /\ \A n \in 0..(N - 1) :
             Cardinality({e \in 1..Len(adj) : adj[e].start = n}) = 1
       /\ {Along(adj, k) : k \in 0..(N - 1)} = 0..(N - 1)
       /\ Along(adj, N) = 0

\* a ring built together with web edges drawn at random
C19_Witness ==
  /\ call = "PerfectAppDostNetwork"
  /\ Len(output.connections) > 2 * Len(output.nodes)
  /\ Len(AdjacentEdges(output.connections)) = perfectNodeCount

RingBuilders ==
  {"PerfectAppDostNetwork", "ProfessionalNetworkSystem", "AppDostCircleNetwork"}

\* C3: the edge list of a structural-rule ring builder has no self-edge and no
\* unordered pair of nodes joined twice, for every outcome of the random choices.
C3_RingNoSelfNoDuplicate ==
  call \in RingBuilders =>
    NoSelfEdge(output.connections) /\ NoDuplicatePair(output.connections)

----------------------------------------------------------------------------
(* Node-field generators.  A node is described by what the generator        *)
(* computes it from: the branch taken for a random position, the fraction   *)
(* y = yNum / yDen of the Fibonacci sphere, the grid indices of the cube    *)
(* (divided by edgeNodes - 1 in the source), the ring and slot of a ring.   *)
(* A zero denominator is a division 0/0 in the source: a NaN coordinate.    *)

ShapeTypes == {"fracturedChaotic", "symmetricalSphere", "wireframeCube",
               "chaoticCloud", "concentricRings"}

\* i < nodeCount * 0.3, i < nodeCount * 0.6
Cluster(i, N) ==
  IF 10 * i < 3 * N THEN "central" ELSE IF 10 * i < 6 * N THEN "outer" ELSE "crystal"

fracturedChaotic(N) == [k \in 1..N |-> [cluster |-> Cluster(k - 1, N)]]

symmetricalSphere(N) ==
  [k \in 1..N |-> [i |-> k - 1, yNum |-> (N - 1) - 2 * (k - 1), yDen |-> N - 1]]

\* Math.floor(Math.cbrt(nodeCount))
RECURSIVE CbrtFrom(_, _)
CbrtFrom(N, e) == IF (e + 1) * (e + 1) * (e + 1) > N THEN e ELSE CbrtFrom(N, e + 1)

FloorCbrt(N) == IF N >= 0 THEN CbrtFrom(N, 0) ELSE 0 - (CbrtFrom((0 - N) - 1, 0) + 1)

wireframeCube(N) ==
  LET edgeNodes == FloorCbrt(N)
      OnSurface(c) == c = 0 \/ c = edgeNodes - 1
      cell(k) == [x |-> (k - 1) \div (edgeNodes * edgeNodes),
                  y |-> ((k - 1) \div edgeNodes) % edgeNodes,
                  z |-> (k - 1) % edgeNodes,
                  den |-> edgeNodes - 1]
      cells == [k \in 1..(edgeNodes * edgeNodes * edgeNodes) |-> cell(k)]
  IN SelectSeq(cells, LAMBDA c : OnSurface(c.x) \/ OnSurface(c.y) \/ OnSurface(c.z))

chaoticCloud(N) == [k \in 1..N |-> [cluster |-> "cloud"]]

concentricRings(N) ==
  LET nodesPerRing == N \div rings
  IN [k \in 1..(rings * nodesPerRing) |->
        [ring |-> (k - 1) \div nodesPerRing, i |-> (k - 1) % nodesPerRing,
         of |-> nodesPerRing]]

\* PlexusConfigurations.shapes[shapeType](nodeCount)
shapeGenerator(shapeType, N) ==
  CASE shapeType = "fracturedChaotic" -> fracturedChaotic(N)
    [] shapeType = "symmetricalSphere" -> symmetricalSphere(N)
    [] shapeType = "wireframeCube" -> wireframeCube(N)
    [] shapeType = "chaoticCloud" -> chaoticCloud(N)
    [] shapeType = "concentricRings" -> concentricRings(N)

\* the node loop of generateFracturedNetwork(nodeCount, …)
FracturedNodes(N) == [k \in 1..N |-> [cluster |-> Cluster(k - 1, N)]]

\* the node counts a caller can pass, negative ones included
NodeCounts == -2..MaxCount

GenInit ==
  /\ CanvasIdle
  /\ AnimIdle
  /\ UiIdle
  /\ call = "none"
  /\ input \in [kind : {"generate"}, nodeCount : NodeCounts, shapeType : ShapeTypes]
  /\ output = NoOutput

\* const nodePositions = shapeGenerator(nodeCount); const nodes = nodePositions.map(…)
\* Neither generator has a throw statement or a check of nodeCount: every call
\* returns, error "none".
GenerateConfigurableNodes ==
  /\ call = "none" /\ input.kind = "generate"
  /\ call' = "generateConfigurableNetwork.nodes"
  /\ output' = [nodes |-> shapeGenerator(input.shapeType, input.nodeCount),
                connections |-> << >>, error |-> "none"]
  /\ UNCHANGED <<input, cvars, avars, uvars>>

GenerateFracturedNodes ==
  /\ call = "none" /\ input.kind = "generate"
  /\ call' = "generateFracturedNetwork.nodes"
  /\ output' = [nodes |-> FracturedNodes(input.nodeCount), connections |-> << >>,
                error |-> "none"]
  /\ UNCHANGED <<input, cvars, avars, uvars>>

GenNext == GenerateConfigurableNodes \/ GenerateFracturedNodes

SpecGen == GenInit /\ [][GenNext]_vars

NodeGenerators == {"generateConfigurableNetwork.nodes", "generateFracturedNetwork.nodes"}

\* C9: for every shape and every requested node count N >= 0 the node-field
\* generator returns exactly N nodes.
C9_ExactlyNNodes ==
  (call \in NodeGenerators /\ input.nodeCount >= 0) =>
    Len(output.nodes) = input.nodeCount

(* C13: a generator call with a negative node count is rejected with a      *)
(* validation error and returns no node list and no edge list.               *)
C13_InvalidRejected ==
  (call \in NodeGenerators /\ input.nodeCount < 0) => output.error # "none"

\* a coordinate is a quotient; with denominator 0 it is 0 / 0, NaN
WellDefinedPosition(node) ==
  /\ ("yDen" \in DOMAIN node) => node.yDen # 0
  /\ ("den" \in DOMAIN node) => node.den # 0
  /\ ("of" \in DOMAIN node) => node.of # 0

(* C14: for every shape, N = 0 gives an empty node list and no error, and   *)
(* N = 1 gives exactly one node, at a well-defined position.                 *)
C14_ZeroAndOne ==
  call = "generateConfigurableNetwork.nodes" =>
    /\ input.nodeCount = 0 => (output.nodes = << >> /\ output.error = "none")
    /\ input.nodeCount = 1 =>
         (Len(output.nodes) = 1 /\ WellDefinedPosition(output.nodes[1]))

----------------------------------------------------------------------------
(* Per-frame animators (useFrame callbacks).  Lengths are in thousandths,   *)
(* opacities in hundredths.  The elapsed time t counts sixtieths of a       *)
(* second; sin and cos are sampled at quarter periods, the argument of a    *)
(* call with frequency f at time t for element k being (f * t + k)          *)
(* quarters.  A ref is "null" (nothing attached), "ok", or "bare": an       *)
(* object is attached but the property the callback reads from it           *)
(* (material.uniforms, a geometry attribute) is undefined.                  *)

Sin4(q) == << 0, 1, 0, -1 >>[(q % 4) + 1]
Cos4(q) == << 1, 0, -1, 0 >>[(q % 4) + 1]

Max(a, b) == IF a >= b THEN a ELSE b

\* the positions the generators put into the buffers (three coordinates a point)
GeneratedPositions(n) == [k \in 1..(3 * n) |-> 100 * k]

\* AppDostSphere: the particle loop, for (let i = 0; i < positions.length; i += 9)
\*   positions[i] = originalPositions[i] + floatX, and so on for i + 1, i + 2
ParticleFloat(positions, originalPositions, t) ==
  [k \in 1..Len(positions) |->
     LET i == ((k - 1) \div 3) * 3
         index == i \div 3
     IN IF i % 9 # 0 THEN positions[k]
        ELSE CASE (k - 1) % 3 = 0 -> originalPositions[k] + 12 * Sin4(t + index)
               [] (k - 1) % 3 = 1 -> originalPositions[k] + 15 * Cos4(2 * t + index)
               [] OTHER -> originalPositions[k] + 10 * Sin4(3 * t + index)]

\* AppDostSphere: alphas[i] = Math.max(0.1, pulse)
LinePulse(alphas, t) ==
  [i \in 1..Len(alphas) |->
     LET lineIndex == (i - 1) \div 2
     IN Max(10, 25 * Sin4(t + lineIndex) + 15 * Cos4(2 * t + lineIndex) + 60)]

\* AppDostSphere: if (i % 6 === 0) { positions[posIndex] += morphAmount; ... }
LineMorph(positions, t) ==
  [k \in 1..Len(positions) |->
     LET i == (k - 1) \div 3
         lineIndex == i \div 2
     IN IF i % 6 # 0 THEN positions[k]
        ELSE CASE (k - 1) % 3 = 0 -> positions[k] + 20 * Sin4(t + lineIndex)
               [] (k - 1) % 3 = 1 -> positions[k] + 15 * Cos4(2 * t + lineIndex)
               [] OTHER -> positions[k] + 18 * Sin4(3 * t + lineIndex)]

\* FloatingParticles: positions[i] += waveX * 0.01, and so on
FloatingWave(positions, t) ==
  [k \in 1..Len(positions) |->
     LET index == (k - 1) \div 3
     IN CASE (k - 1) % 3 = 0 -> positions[k] + 5 * Sin4(t + index)
          [] (k - 1) % 3 = 1 -> positions[k] + 3 * Cos4(2 * t + index)
          [] OTHER -> positions[k] + 4 * Sin4(3 * t + index)]

\* FloatingParticles: colors[i + 1] += colorShift * 0.1; colors[i + 2] += colorShift * 0.08
FloatingColors(colors, t) ==
  [k \in 1..Len(colors) |->
     LET index == (k - 1) \div 3
     IN CASE (k - 1) % 3 = 1 -> colors[k] + 10 * Sin4(t + index)
          [] (k - 1) % 3 = 2 -> colors[k] + 8 * Sin4(t + index)
          [] OTHER -> colors[k]]

\* FloatingParticles: sizes[index] = (0.8 + Math.random() * 2.2) * sizePulse,
\* r[index] telling whether Math.random() came out low or high
FloatingSizes(sizes, r, t) ==
  [k \in 1..Len(sizes) |->
     (IF r[k] THEN 3000 ELSE 800) + ((IF r[k] THEN 900 ELSE 240) * Sin4(t + k - 1))]

\* AppDostNode, with a pulse centred on 1.0 in place of 0.8
NodePulse_AroundOne(t, delay) == 20 * Sin4(3 * (t + delay) + 4 * delay) + 100

\* AppDostNode: const pulse = Math.sin(time * 1.5 + delay * 2) * 0.2 + 0.8,
\* where time = state.clock.elapsedTime + delay
NodePulse(t, delay) == 20 * Sin4(3 * (t + delay) + 4 * delay) + 80

\* ProfessionalConnection: typeMultiplier
TypeMultiplier(type) ==
  CASE type = "secondary" -> 70
    [] type = "tertiary" -> 40
    [] OTHER -> 100

\* ProfessionalConnection: the opacity written, in millionths
\*   (0.3 + flow * 0.4) * intensity * basePulse * typeMultiplier
ConnectionOpacity(t, conn) ==
  LET time == t + conn.delay
      flow == (Sin4(5 * time + 6 * conn.delay) + 1) * 50
      basePulse == 15 * Sin4(6 * time + 5 * conn.delay) + 85
  IN ((30 + (flow * 40) \div 100) * conn.intensity * basePulse
        * TypeMultiplier(conn.type)) \div 100

\* the intensity and type the connection builder of ProfessionalAppDostNetwork
\* gives its connections
ProfessionalProps ==
  { [intensity |-> 100, type |-> "primary"], [intensity |-> 80, type |-> "secondary"],
    [intensity |-> 50, type |-> "tertiary"], [intensity |-> 40, type |-> "tertiary"] }

Animators ==
  {"AppDostSphere", "FloatingParticles", "NeuralNetworkSphere", "NetworkNode",
   "AppDostNode", "ProfessionalConnection"}

Scenes(a) ==
  CASE a = "AppDostSphere" ->
         [sphereRef : {"null", "ok"}, particlesRef : {"null", "ok", "bare"},
          linesRef : {"null", "ok", "bare"}]
    [] a = "FloatingParticles" -> [particlesRef : {"null", "ok", "bare"}]
    [] a = "NeuralNetworkSphere" ->
         [groupRef : {"null", "ok"}, sphereRef : {"null", "ok", "bare"}]
    [] a = "NetworkNode" ->
         [meshRef : {"null", "ok", "noMaterial", "bare"}, glowRef : {"null", "ok"}]
    [] a = "AppDostNode" ->
         [meshRef : {"null", "ok"}, glowRef : {"null", "ok"}, intensity : {100},
          delay : 0..3]
    [] a = "ProfessionalConnection" ->
         { [materialRef |-> m, intensity |-> p.intensity, type |-> p.type, delay |-> d] :
             m \in {"null", "ok"}, p \in ProfessionalProps, d \in 0..3 }

\* the buffers as the useMemo of the component built them
InitialBuffers(a) ==
  CASE a = "AppDostSphere" ->
         [sphere |-> [set |-> FALSE],
          particlePositions |-> GeneratedPositions(SpherePoints),
          linePositions |-> GeneratedPositions(2 * SphereLines),
          alphas |-> [i \in 1..(2 * SphereLines) |-> 70],
          uniformsTime |-> 0]
    [] a = "FloatingParticles" ->
         [points |-> [set |-> FALSE],
          positions |-> GeneratedPositions(FloatCount),
          colors |-> [k \in 1..(3 * FloatCount) |-> 300],
          sizes |-> [k \in 1..FloatCount |-> 800]]
    [] a = "NeuralNetworkSphere" ->
         [group |-> [set |-> FALSE], uniformsTime |-> 0, uniformsPulse |-> 100]
    [] a = "NetworkNode" ->
         [scale |-> [set |-> FALSE], uniformsTime |-> 0, uniformsIntensity |-> 100]
    [] a = "AppDostNode" ->
         [scale |-> [set |-> FALSE], opacity |-> 90, glowOpacity |-> 15]
    [] a = "ProfessionalConnection" -> [opacity |-> 600000]

AnimInit ==
  /\ CanvasIdle
  /\ BuilderIdle
  /\ UiIdle
  /\ animator \in Animators
  /\ scene \in Scenes(animator)
  /\ clock = 0
  /\ buffers = InitialBuffers(animator)
  /\ animLog = [ran |-> FALSE]

\* the render loop calls the callback once a frame, each frame at a later
\* elapsed time than the one before
FrameDue == IF animLog.ran THEN animLog.time < clock ELSE TRUE

\* the host clock advances between two frames
Tick ==
  /\ animator # "none"
  /\ clock < MaxClock
  /\ clock' = clock + 1
  /\ UNCHANGED <<animator, scene, buffers, animLog, cvars, bvars, uvars>>

\* useFrame of AppDostSphere at time t = clock.  The statements run in order
\* and there is no try/catch: reading a property of undefined throws and ends
\* the callback with the earlier writes of the frame in place.
AppDostSphereFrame ==
  /\ animator = "AppDostSphere"
  /\ FrameDue
  /\ LET t == clock
         b1 == IF scene.sphereRef # "null"
               THEN [buffers EXCEPT !.sphere = [set |-> TRUE, time |-> t]]
               ELSE buffers
         gate == scene.particlesRef # "null" /\ t % 3 = 0
         throw2 == gate /\ scene.particlesRef = "bare"
         \* positions is geometry.attributes.position.array, the array the
         \* attribute was given: particlePositions; originalPositions is
         \* particlePositions too
         b2 == IF gate /\ ~throw2
               THEN [b1 EXCEPT !.particlePositions =
                       ParticleFloat(b1.particlePositions, b1.particlePositions, t)]
               ELSE b1
         throw3 == ~throw2 /\ scene.linesRef = "bare"
         b3 == IF ~throw2 /\ scene.linesRef = "ok"
               THEN [b2 EXCEPT !.uniformsTime = t,
                               !.alphas = LinePulse(b2.alphas, t),
                               !.linePositions = LineMorph(b2.linePositions, t)]
               ELSE b2
     IN /\ buffers' = b3
        /\ animLog' = [ran |-> TRUE, time |-> t, threw |-> throw2 \/ throw3,
                       particles |-> gate /\ ~throw2,
                       lines |-> ~throw2 /\ scene.linesRef = "ok"]
  /\ UNCHANGED <<animator, scene, clock, cvars, bvars, uvars>>

\* useFrame of FloatingParticles
FloatingParticlesFrame ==
  /\ animator = "FloatingParticles"
  /\ FrameDue
  /\ \E r \in [1..FloatCount -> BOOLEAN] :
       LET t == clock
           throws == scene.particlesRef = "bare"
           b1 == IF scene.particlesRef # "null"
                 THEN [buffers EXCEPT !.points = [set |-> TRUE, time |-> t]]
                 ELSE buffers
           b2 == IF scene.particlesRef = "ok"
                 THEN [b1 EXCEPT !.positions = FloatingWave(b1.positions, t),
                                 !.sizes = FloatingSizes(b1.sizes, r, t),
                                 !.colors = FloatingColors(b1.colors, t)]
                 ELSE b1
       IN /\ buffers' = b2
          /\ animLog' = [ran |-> TRUE, time |-> t, threw |-> throws,
                         particles |-> scene.particlesRef = "ok", lines |-> FALSE]
  /\ UNCHANGED <<animator, scene, clock, cvars, bvars, uvars>>

\* useFrame of NeuralNetworkSphere
NeuralNetworkSphereFrame ==
  /\ animator = "NeuralNetworkSphere"
  /\ FrameDue
  /\ LET t == clock
         b1 == IF scene.groupRef # "null"
               THEN [buffers EXCEPT !.group = [set |-> TRUE, time |-> t]]
               ELSE buffers
         b2 == IF scene.sphereRef = "ok"
               THEN [b1 EXCEPT !.uniformsTime = t,
                               !.uniformsPulse = 30 * Sin4(t) + 70]
               ELSE b1
     IN /\ buffers' = b2
        /\ animLog' = [ran |-> TRUE, time |-> t, threw |-> scene.sphereRef = "bare",
                       particles |-> FALSE, lines |-> FALSE]
  /\ UNCHANGED <<animator, scene, clock, cvars, bvars, uvars>>

\* useFrame of NetworkNode: if (meshRef.current && glowRef.current) { ...
\*   if (meshRef.current.material) { material.uniforms.time.value = time ... } }
NetworkNodeFrame ==
  /\ animator = "NetworkNode"
  /\ FrameDue
  /\ LET t == clock
         both == scene.meshRef # "null" /\ scene.glowRef # "null"
         b1 == IF both THEN [buffers EXCEPT !.scale = [set |-> TRUE, time |-> t]]
               ELSE buffers
         b2 == IF both /\ scene.meshRef = "ok"
               THEN [b1 EXCEPT !.uniformsTime = t,
                               !.uniformsIntensity = 30 * Sin4(t) + 70]
               ELSE b1
     IN /\ buffers' = b2
        /\ animLog' = [ran |-> TRUE, time |-> t,
                       threw |-> both /\ scene.meshRef = "bare",
                       particles |-> FALSE, lines |-> FALSE]
  /\ UNCHANGED <<animator, scene, clock, cvars, bvars, uvars>>

\* useFrame of AppDostNode: if (meshRef.current && glowRef.current) { ... }
AppDostNodeFrame ==
  /\ animator = "AppDostNode"
  /\ FrameDue
  /\ LET t == clock
         both == scene.meshRef # "null" /\ scene.glowRef # "null"
         pulse == NodePulse(t, scene.delay)
     IN /\ buffers' = IF both
                      THEN [scale |-> [set |-> TRUE, time |-> t],
                            opacity |-> (scene.intensity * pulse) \div 100,
                            glowOpacity |-> (scene.intensity * 25 * pulse) \div 10000]
                      ELSE buffers
        /\ animLog' = [ran |-> TRUE, time |-> t, threw |-> FALSE,
                       particles |-> FALSE, lines |-> FALSE]
  /\ UNCHANGED <<animator, scene, clock, cvars, bvars, uvars>>

\* useFrame of ProfessionalConnection: if (materialRef.current) { ... }
ProfessionalConnectionFrame ==
  /\ animator = "ProfessionalConnection"
  /\ FrameDue
  /\ LET t == clock
     IN /\ buffers' = IF scene.materialRef # "null"
                      THEN [opacity |-> ConnectionOpacity(t, scene)]
                      ELSE buffers
        /\ animLog' = [ran |-> TRUE, time |-> t, threw |-> FALSE,
                       particles |-> FALSE, lines |-> FALSE]
  /\ UNCHANGED <<animator, scene, clock, cvars, bvars, uvars>>

AnimNext ==
  \/ Tick
  \/ AppDostSphereFrame
  \/ FloatingParticlesFrame
  \/ NeuralNetworkSphereFrame
  \/ NetworkNodeFrame
  \/ AppDostNodeFrame
  \/ ProfessionalConnectionFrame

SpecAnim == AnimInit /\ [][AnimNext]_vars

RestParticles == GeneratedPositions(SpherePoints)
RestLines == GeneratedPositions(2 * SphereLines)
RestFloating == GeneratedPositions(FloatCount)

(* C4: the display positions a frame writes are computed from the rest      *)
(* positions as generated and the elapsed time of that frame alone, never    *)
(* from what an earlier frame wrote.                                         *)
C4_DisplayFromRest ==
  animLog.ran =>
    /\ (animator = "AppDostSphere" /\ animLog.particles) =>
         buffers.particlePositions = ParticleFloat(RestParticles, RestParticles, animLog.time)
    /\ (animator = "AppDostSphere" /\ animLog.lines) =>
         buffers.linePositions = LineMorph(RestLines, animLog.time)
    /\ (animator = "FloatingParticles" /\ animLog.particles) =>
         buffers.positions = FloatingWave(RestFloating, animLog.time)

(* C8: no call of a per-frame animator throws, frames with an attached      *)
(* scene object whose material, uniforms or attribute is undefined included. *)
C8_AnimatorNeverThrows == animLog.ran => ~animLog.threw

----------------------------------------------------------------------------
(* Page components.  An event action is the handler followed by what React   *)
(* does before the next event is dispatched: the render with the new state,  *)
(* the cleanup and re-run of the effects whose dependencies changed.  A      *)
(* handler reads the state through the closure of the render (or effect run) *)
(* that created it.                                                          *)

\* navigation of data/content.js, lower-cased as handleNavClick stores it
NavNames == {"home", "services", "projects", "industries", "about", "contact"}

\* the mobile menu button, with the two labels the wrong way round
HeaderView_LabelSwapped(open) ==
  [ariaExpanded |-> open,
   ariaLabel |-> IF open THEN "Open menu" ELSE "Close menu",
   menuShown |-> open]

\* what Header renders of isMobileMenuOpen: the attributes of the menu button
\* and whether the mobile navigation is in the document
HeaderView(open) ==
  [ariaExpanded |-> open,
   ariaLabel |-> IF open THEN "Close menu" ELSE "Open menu",
   menuShown |-> open]

\* the keydown effect registered once, with no dependency on isMobileMenuOpen
KeyDownEffect_Once(sees, before, after) == sees

\* useEffect(..., [isMobileMenuOpen]): when the flag changed in the render, the
\* old listener is removed and one that closes over the new flag is added.
\* The value is the flag the listener in force sees.
KeyDownEffect(sees, before, after) == IF before # after THEN after ELSE sees

\* the render of Header with the state s, and its effects
HeaderRender(before, s) ==
  [s EXCEPT !.view = HeaderView(s.isMobileMenuOpen),
            !.toggleSees = s.isMobileMenuOpen,
            !.keyDownSees = KeyDownEffect(before.keyDownSees, before.isMobileMenuOpen,
                                          s.isMobileMenuOpen)]

HeaderInit ==
  /\ widget = "Header"
  /\ ui = [isMobileMenuOpen |-> FALSE, activeSection |-> "home", isScrolled |-> FALSE,
           view |-> HeaderView(FALSE), toggleSees |-> FALSE, keyDownSees |-> FALSE]

\* toggleMobileMenu: setIsMobileMenuOpen(!isMobileMenuOpen)
toggleMobileMenu ==
  /\ widget = "Header"
  /\ ui' = HeaderRender(ui, [ui EXCEPT !.isMobileMenuOpen = ~ui.toggleSees])
  /\ uiLog' = [event |-> "toggle", before |-> ui.isMobileMenuOpen]
  /\ UNCHANGED <<widget, cvars, bvars, avars>>

\* handleNavClick(href, name), from the desktop navigation, the Get Started
\* button or an item of the open mobile menu
handleNavClick ==
  /\ widget = "Header"
  /\ \E name \in NavNames :
       ui' = HeaderRender(ui, [ui EXCEPT !.isMobileMenuOpen = FALSE,
                                         !.activeSection = name])
  /\ uiLog' = [event |-> "nav", before |-> ui.isMobileMenuOpen]
  /\ UNCHANGED <<widget, cvars, bvars, avars>>

\* handleKeyDown of the listener in force:
\*   if (event.key === 'Escape' && isMobileMenuOpen) setIsMobileMenuOpen(false)
handleKeyDown ==
  /\ widget = "Header"
  /\ \E key \in {"Escape", "Enter"} :
       /\ ui' = IF key = "Escape" /\ ui.keyDownSees
                THEN HeaderRender(ui, [ui EXCEPT !.isMobileMenuOpen = FALSE])
                ELSE ui
       /\ uiLog' = [event |-> key, before |-> ui.isMobileMenuOpen]
  /\ UNCHANGED <<widget, cvars, bvars, avars>>

\* handleScroll: setIsScrolled(window.scrollY > 20)
handleScroll ==
  /\ widget = "Header"
  /\ \E scrolled \in BOOLEAN :
       ui' = HeaderRender(ui, [ui EXCEPT !.isScrolled = scrolled])
  /\ uiLog' = [event |-> "scroll", before |-> ui.isMobileMenuOpen]
  /\ UNCHANGED <<widget, cvars, bvars, avars>>

\* The page of App with its Hero section.  `preference` is the user's
\* prefers-reduced-motion setting, `backgrounds` the animated network
\* backgrounds mounted, named by the component that renders them.
MotionSettings == {"reduce", "no-preference"}

\* what App and Hero render for the hook state prefersReducedMotion: App
\* renders <AppDostSphereBackground /> always, Hero either its own or the
\* static gradient
PageRender(s) ==
  [s EXCEPT !.backgrounds = {"App"} \cup (IF s.prefersReducedMotion THEN {} ELSE {"Hero"}),
            !.staticGradient = s.prefersReducedMotion]

\* the first render, before the effects: useState(false)
HeroInit ==
  /\ widget = "Hero"
  /\ \E setting \in MotionSettings :
       ui = PageRender([preference |-> setting, prefersReducedMotion |-> FALSE,
                        listening |-> FALSE, backgrounds |-> {},
                        staticGradient |-> FALSE])

\* the effect of usePrefersReducedMotion, run once after the mount:
\* setPrefersReducedMotion(mediaQueryList.matches), addEventListener('change')
usePrefersReducedMotion ==
  /\ widget = "Hero"
  /\ ~ui.listening
  /\ ui' = PageRender([ui EXCEPT !.prefersReducedMotion = (ui.preference = "reduce"),
                                 !.listening = TRUE])
  /\ uiLog' = [event |-> "effect"]
  /\ UNCHANGED <<widget, cvars, bvars, avars>>

\* the user changes the setting; handleChange runs when it is registered:
\* setPrefersReducedMotion(event.matches)
handleChange ==
  /\ widget = "Hero"
  /\ \E setting \in MotionSettings \ {ui.preference} :
       ui' = IF ui.listening
             THEN PageRender([ui EXCEPT !.preference = setting,
                                        !.prefersReducedMotion = (setting = "reduce")])
             ELSE [ui EXCEPT !.preference = setting]
  /\ uiLog' = [event |-> "change"]
  /\ UNCHANGED <<widget, cvars, bvars, avars>>

\* Footer newsletter form.  Times are in half seconds; a timer is
\* [at, seq, kind, by]: when it is due, the order it was set in, what its
\* callback does ("resolve" the simulated request, or set the status "idle")
\* and the submission that set it.
Emails == {"", "a@b", "a@b.co"}

\* /^[^\s@]+@[^\s@]+\.[^\s@]+$/ on the addresses of Emails
validateEmail(email) == email = "a@b.co"

\* setNewsletterStatus(status) and the render: input and button are
\* disabled={newsletterStatus === 'loading'}
SetStatus(s, status, by) ==
  [s EXCEPT !.newsletterStatus = status, !.disabled = (status = "loading"),
            !.statusBy = by, !.statusAt = s.now]

\* setTimeout(callback, delay)
SetTimer(s, delay, kind, by) ==
  [s EXCEPT !.timers = @ \cup {[at |-> s.now + delay, seq |-> s.nextSeq,
                                kind |-> kind, by |-> by]},
            !.nextSeq = @ + 1]

FooterInit ==
  /\ widget = "Footer"
  /\ ui = [email |-> "", newsletterStatus |-> "idle", disabled |-> FALSE,
           statusBy |-> 0, statusAt |-> 0, now |-> 0, timers |-> {}, nextSeq |-> 1,
           submissions |-> 0]

\* onChange of the input: setEmail(e.target.value)
setEmail ==
  /\ widget = "Footer"
  /\ ~ui.disabled
  /\ \E value \in Emails \ {ui.email} : ui' = [ui EXCEPT !.email = value]
  /\ uiLog' = [event |-> "input"]
  /\ UNCHANGED <<widget, cvars, bvars, avars>>

\* handleNewsletterSubmit up to its await; the form submits only while its
\* controls are enabled and the required input is filled in
handleNewsletterSubmit ==
  /\ widget = "Footer"
  /\ ~ui.disabled /\ ui.email # ""
  /\ ui.submissions < MaxSubmits
  /\ LET by == ui.submissions + 1
         s == [ui EXCEPT !.submissions = by]
     IN ui' = IF ~validateEmail(ui.email)
              THEN SetTimer(SetStatus(s, "error", by), errorDelay, "idle", by)
              ELSE SetTimer(SetStatus(s, "loading", by), requestDelay, "resolve", by)
  /\ uiLog' = [event |-> "submit"]
  /\ UNCHANGED <<widget, cvars, bvars, avars>>

\* the timer that is due and was set first
DueTimers(s) == {t \in s.timers : t.at <= s.now}
FirstDue(s) ==
  CHOOSE t \in DueTimers(s) :
     \A u \in DueTimers(s) : t.at < u.at \/ (t.at = u.at /\ t.seq <= u.seq)

\* clearTimeout left out
ClearTimeout_Nothing(timers, id) == timers

\* clearTimeout(id): without effect when no pending timer has that id
ClearTimeout(timers, id) == {t \in timers : t.seq # id}

\* a timer fires.  "resolve": the rest of handleNewsletterSubmit after the
\* await (the promise never rejects); "idle": () => setNewsletterStatus('idle');
\* "later": the closure of debounce, clearTimeout(timeout); func(...args)
TimerFires ==
  /\ widget \in {"Footer", "debounce"}
  /\ DueTimers(ui) # {}
  /\ LET t == FirstDue(ui)
         s == [ui EXCEPT !.timers = @ \ {t}]
     IN IF t.kind = "later"
        THEN /\ ui' = [s EXCEPT !.timers = ClearTimeout(@, s.timeout),
                                !.runs = @ + 1]
             /\ uiLog' = [event |-> "func", args |-> t.by, lastArgs |-> ui.lastArgs,
                          quiet |-> ui.now - ui.lastCall]
        ELSE /\ ui' = IF t.kind = "resolve"
                      THEN SetTimer([SetStatus(s, "success", t.by) EXCEPT !.email = ""],
                                    successDelay, "idle", t.by)
                      ELSE SetStatus(s, "idle", t.by)
             /\ uiLog' = [event |-> t.kind, by |-> t.by, status |-> ui.newsletterStatus,
                          statusBy |-> ui.statusBy, heldFor |-> ui.now - ui.statusAt]
  /\ UNCHANGED <<widget, cvars, bvars, avars>>

\* debounce(func, wait): `timeout` is the id of the last timer set (0 before
\* the first call), `runs` counts the calls of func since the last call of the
\* debounced function; a "later" timer carries the args of its call in `by`
DebounceInit ==
  /\ widget = "debounce"
  /\ \E wait \in 1..2 :
       ui = [wait |-> wait, timeout |-> 0, timers |-> {}, nextSeq |-> 1, now |-> 0,
             called |-> FALSE, lastCall |-> 0, lastArgs |-> "none", runs |-> 0]

\* executedFunction(...args): clearTimeout(timeout); timeout = setTimeout(later, wait)
executedFunction ==
  /\ widget = "debounce"
  /\ ui.nextSeq <= MaxCalls
  /\ \E args \in {"a", "b"} :
       ui' = SetTimer([ui EXCEPT !.timers = ClearTimeout(@, ui.timeout),
                                 !.timeout = ui.nextSeq,
                                 !.called = TRUE, !.lastCall = ui.now,
                                 !.lastArgs = args, !.runs = 0],
                      ui.wait, "later", args)
  /\ uiLog' = [event |-> "call"]
  /\ UNCHANGED <<widget, cvars, bvars, avars>>

\* half a second passes, once every timer that is due has fired
TimePasses ==
  /\ widget \in {"Footer", "debounce"}
  /\ DueTimers(ui) = {}
  /\ ui.now < MaxTime
  /\ ui' = [ui EXCEPT !.now = @ + 1]
  /\ uiLog' = [event |-> "time"]
  /\ UNCHANGED <<widget, cvars, bvars, avars>>

\* App and its structured-data script.  `head` is document.head as the list
\* of its script elements, each [id, type, by]; `cleanup` is what the last run
\* of the structured-data effect returned: NoCleanup, or the cleanup closing
\* over the script that run created.
NoCleanup == [set |-> FALSE]

Apps == {"DemoApp", "App"}

\* document.querySelector('script'): the first script of any type
QueryLdJson_AnyScript(head) ==
  IF head = << >> THEN {} ELSE {head[1].id}

\* document.querySelector('script[type="application/ld+json"]'): the first
\* such script of the document, as a set of at most one id
QueryLdJson(head) ==
  LET found == {k \in 1..Len(head) : head[k].type = "application/ld+json"}
  IN IF found = {} THEN {}
     ELSE {head[CHOOSE k \in found : \A l \in found : k <= l].id}

\* document.head.removeChild of the scripts named in ids
RemoveScripts(head, ids) == SelectSeq(head, LAMBDA script : script.id \notin ids)

\* the cleanup a run of the effect returned: DemoApp removes the script the
\* selector finds, App of the main entry the script it created
RunCleanup(s) ==
  IF ~s.cleanup.set THEN s
  ELSE LET ids == IF s.app = "DemoApp" THEN QueryLdJson(s.head) ELSE {s.cleanup.script}
       IN [s EXCEPT !.head = RemoveScripts(s.head, ids), !.cleanup = NoCleanup,
                    !.removed = ids, !.owned = {s.cleanup.script}]

\* a run of the effect: if (showDemo) return; createElement, appendChild,
\* return the cleanup
RunEffect(s) ==
  IF s.showDemo THEN s
  ELSE [s EXCEPT !.head = Append(@, [id |-> s.nextId, type |-> "application/ld+json",
                                     by |-> "App"]),
                 !.cleanup = [set |-> TRUE, script |-> s.nextId],
                 !.nextId = @ + 1]

\* the document before the mount holds the module script of the entry page
AppInit ==
  /\ widget = "App"
  /\ \E app \in Apps :
       ui = RunEffect([app |-> app, mounted |-> TRUE, showDemo |-> FALSE,
                       head |-> << [id |-> 0, type |-> "module", by |-> "page"] >>,
                       nextId |-> 1, cleanup |-> NoCleanup,
                       removed |-> {}, owned |-> {}])

\* handleKeyPress for 'D' or 'd', and the 'Back to Site' button: the render
\* with the new showDemo, then the cleanup and the effect ([showDemo])
handleKeyPress ==
  /\ widget = "App"
  /\ ui.app = "DemoApp" /\ ui.mounted
  /\ ui.nextId <= MaxScripts
  /\ ui' = RunEffect(RunCleanup([ui EXCEPT !.showDemo = ~ui.showDemo]))
  /\ uiLog' = [event |-> "keydown", cleanup |-> ui.cleanup.set]
  /\ UNCHANGED <<widget, cvars, bvars, avars>>

\* the root unmounts App: the cleanup of the last effect run
AppUnmount ==
  /\ widget = "App"
  /\ ui.mounted
  /\ ui' = RunCleanup([ui EXCEPT !.mounted = FALSE])
  /\ uiLog' = [event |-> "unmount", cleanup |-> ui.cleanup.set]
  /\ UNCHANGED <<widget, cvars, bvars, avars>>

\* App is mounted again: useState(false), then the effect
AppMount ==
  /\ widget = "App"
  /\ ~ui.mounted
  /\ ui.nextId <= MaxScripts
  /\ ui' = RunEffect([ui EXCEPT !.mounted = TRUE, !.showDemo = FALSE])
  /\ uiLog' = [event |-> "mount", cleanup |-> FALSE]
  /\ UNCHANGED <<widget, cvars, bvars, avars>>

\* MetricCard and animateValue.  Times are in half seconds; `pending` holds
\* while a requestAnimationFrame(animate) is waiting, `startTime` is -1 for
\* null, `calls` counts the calls of animateValue, `frames` the calls of
\* animate, `lateCalls` the calls of setDisplayValue after the unmount.
MetricValues == {15, 250}

\* const progress = timeElapsed / duration, not held at 1
Progress_Unclamped(timeElapsed, duration) == timeElapsed

\* const progress = Math.min(timeElapsed / duration, 1), in units of
\* 1 / duration
Progress(timeElapsed, duration) ==
  IF timeElapsed < duration THEN timeElapsed ELSE duration

\* Math.floor(easeOut * (end - start) + start), easeOut = 1 - (1 - progress)^3
EasedValue(start, end, progress, duration) ==
  LET rest == duration - progress
      cube == duration * duration * duration
  IN (((cube - rest * rest * rest) * (end - start)) \div cube) + start

MetricInit ==
  /\ widget = "MetricCard"
  /\ \E value \in MetricValues, reduced \in BOOLEAN :
       ui = [value |-> value, prefersReducedMotion |-> reduced, mounted |-> TRUE,
             shouldAnimate |-> FALSE, hasAnimated |-> FALSE, displayValue |-> 0,
             pending |-> FALSE, startTime |-> -1, now |-> 0,
             calls |-> 0, frames |-> 0, lateCalls |-> 0]

\* the parent renders the card with a new shouldAnimate; the effect runs:
\*   if (shouldAnimate && !hasAnimated) { setHasAnimated(true); ... }
MetricEffect ==
  /\ widget = "MetricCard"
  /\ ui.mounted
  /\ LET s == [ui EXCEPT !.shouldAnimate = ~ui.shouldAnimate]
     IN ui' = IF s.shouldAnimate /\ ~s.hasAnimated
              THEN IF s.prefersReducedMotion
                   THEN [s EXCEPT !.hasAnimated = TRUE, !.displayValue = s.value]
                   ELSE [s EXCEPT !.hasAnimated = TRUE, !.pending = TRUE,
                                  !.calls = @ + 1]
              ELSE s
  /\ uiLog' = [event |-> "render"]
  /\ UNCHANGED <<widget, cvars, bvars, avars>>

\* animate(currentTime) of animateValue(0, metric.value, 2000, setDisplayValue),
\* called by the host at a later time than the frame before
animateValue ==
  /\ widget = "MetricCard"
  /\ ui.pending
  /\ \E later \in 1..2 :
       LET currentTime == ui.now + later
           startTime == IF ui.startTime = -1 THEN currentTime ELSE ui.startTime
           progress == Progress(currentTime - startTime, countUpDuration)
           value == EasedValue(0, ui.value, progress, countUpDuration)
       IN ui' = [ui EXCEPT !.now = currentTime, !.startTime = startTime,
                           !.displayValue = IF ui.mounted THEN value ELSE @,
                           !.lateCalls = IF ui.mounted THEN @ ELSE @ + 1,
                           !.frames = @ + 1,
                           !.pending = progress < countUpDuration]
  /\ uiLog' = [event |-> "frame"]
  /\ UNCHANGED <<widget, cvars, bvars, avars>>

\* the card unmounts; the effect returns no cleanup
MetricUnmount ==
  /\ widget = "MetricCard"
  /\ ui.mounted
  /\ ui' = [ui EXCEPT !.mounted = FALSE]
  /\ uiLog' = [event |-> "unmount"]
  /\ UNCHANGED <<widget, cvars, bvars, avars>>

PageInit ==
  /\ CanvasIdle
  /\ BuilderIdle
  /\ AnimIdle
  /\ uiLog = NoEvent
  /\ (HeaderInit \/ HeroInit \/ FooterInit \/ AppInit \/ MetricInit \/ DebounceInit)

PageNext ==
  \/ toggleMobileMenu
  \/ handleNavClick
  \/ handleKeyDown
  \/ handleScroll
  \/ usePrefersReducedMotion
  \/ handleChange
  \/ setEmail
  \/ handleNewsletterSubmit
  \/ TimerFires
  \/ TimePasses
  \/ handleKeyPress
  \/ AppUnmount
  \/ AppMount
  \/ MetricEffect
  \/ animateValue
  \/ MetricUnmount
  \/ executedFunction

SpecPage == PageInit /\ [][PageNext]_vars

(* C22: the mobile menu starts closed, every click on the menu button flips  *)
(* it, and in every state the button's aria-expanded is the open flag and    *)
(* its aria-label is 'Close menu' exactly when the menu is open, 'Open menu' *)
(* otherwise.                                                                *)
C22_MenuButton ==
  widget = "Header" =>
    /\ uiLog = NoEvent => ~ui.isMobileMenuOpen
    /\ uiLog.event = "toggle" => ui.isMobileMenuOpen = ~uiLog.before
    /\ ui.view.ariaExpanded = ui.isMobileMenuOpen
    /\ ui.view.ariaLabel = "Close menu" <=> ui.isMobileMenuOpen
    /\ ui.view.ariaLabel = "Open menu" <=> ~ui.isMobileMenuOpen

\* a click that closed the open menu
C22_Witness ==
  /\ widget = "Header"
  /\ uiLog.event = "toggle" /\ uiLog.before
  /\ ui.view.ariaLabel = "Open menu"

(* C26: after an Escape key press and after a click on a navigation item the *)
(* mobile menu is closed, whatever it was before, and the Escape handler in  *)
(* force sees the current open flag.                                         *)
C26_EscapeAndNavClose ==
  widget = "Header" =>
    /\ uiLog.event \in {"Escape", "nav"} => ~ui.isMobileMenuOpen
    /\ ui.keyDownSees = ui.isMobileMenuOpen

\* an Escape key press with the menu open
C26_Witness ==
  /\ widget = "Header"
  /\ uiLog.event = "Escape" /\ uiLog.before
  /\ ~ui.isMobileMenuOpen

(* C23: while the prefers-reduced-motion setting is 'reduce', at mount or    *)
(* after a change, no animated network background is mounted and the static  *)
(* gradient is shown; stated for the page once the effect of the hook ran.   *)
C23_ReducedMotionStatic ==
  (widget = "Hero" /\ ui.listening /\ ui.preference = "reduce") =>
    (ui.backgrounds = {} /\ ui.staticGradient)

\* the simulated requests not yet resolved
InFlight(s) == {t \in s.timers : t.kind = "resolve"}

(* C24: at most one newsletter submission is in flight at any time, and      *)
(* while one is, the form stays disabled.                                    *)
C24_OneSubmissionInFlight ==
  widget = "Footer" =>
    /\ Cardinality(InFlight(ui)) <= 1
    /\ InFlight(ui) # {} => ui.disabled

(* C25: a timer that sets the status back to 'idle' is the timer of the      *)
(* submission that set the status it replaces, and it replaces 'success'     *)
(* after 5000 ms and 'error' after 3000 ms, never any other status.          *)
C25_StatusLastsFullTime ==
  (widget = "Footer" /\ uiLog.event = "idle") =>
    /\ uiLog.by = uiLog.statusBy
    /\ uiLog.status \in {"success", "error"}
    /\ uiLog.status = "success" => uiLog.heldFor = successDelay
    /\ uiLog.status = "error" => uiLog.heldFor = errorDelay

\* the structured-data scripts of App in document.head
AppScripts(s) == {k \in 1..Len(s.head) : s.head[k].by = "App"}

(* C27: after every sequence of 'D' key presses, mounts and unmounts,        *)
(* document.head holds exactly one structured-data script of App while the   *)
(* main site is shown and none while the demo is shown or App is unmounted,  *)
(* and a cleanup removes the script its own effect run added and no other.   *)
C27_OneStructuredDataScript ==
  widget = "App" =>
    /\ Cardinality(AppScripts(ui)) = IF ui.mounted /\ ~ui.showDemo THEN 1 ELSE 0
    /\ (uiLog.event # "none" /\ uiLog.cleanup) => ui.removed = ui.owned
    /\ \E k \in 1..Len(ui.head) : ui.head[k].by = "page"

\* the demo is shown after the script of an earlier run was removed and a
\* later one added and removed in its turn
C27_Witness ==
  /\ widget = "App"
  /\ ui.app = "DemoApp" /\ ui.showDemo
  /\ uiLog.event = "keydown" /\ uiLog.cleanup
  /\ ui.removed = {2}

(* C28: the count-up of a MetricCard is started at most once, it runs a      *)
(* bounded number of frames (each frame is later than the one before, so at  *)
(* most one more than the duration has time units), and once it schedules no *)
(* further frame the card displays metric.value exactly.                     *)
C28_CountUpOnceAndExact ==
  widget = "MetricCard" =>
    /\ ui.calls <= 1
    /\ ui.frames <= countUpDuration + 1
    /\ (ui.mounted /\ ui.hasAnimated /\ ~ui.pending) => ui.displayValue = ui.value

\* a count-up to 250 that ran to its last frame, the card rendered again since
C28_Witness ==
  /\ widget = "MetricCard"
  /\ ui.value = 250 /\ ui.displayValue = 250
  /\ ui.calls = 1 /\ ui.frames >= 3 /\ ~ui.pending
  /\ ui.mounted /\ ~ui.shouldAnimate

(* C29: after a MetricCard unmounts, no animation frame of its count-up      *)
(* calls the state setter again.                                             *)
C29_NoSetterAfterUnmount == widget = "MetricCard" => ui.lateCalls = 0

(* C30: func runs only when `wait` has passed since the last call of the    *)
(* debounced function, with the arguments of that call, and exactly once for *)
(* each such quiet period.                                                   *)
C30_DebounceTrailing ==
  widget = "debounce" =>
    /\ uiLog.event = "func" => (uiLog.quiet >= ui.wait /\ uiLog.args = uiLog.lastArgs)
    /\ ui.runs <= 1
    /\ (ui.called /\ ui.now - ui.lastCall > ui.wait) => ui.runs = 1
    /\ ~ui.called => ui.runs = 0

\* func ran with the arguments of the last of several calls
C30_Witness ==
  /\ widget = "debounce"
  /\ uiLog.event = "func" /\ uiLog.args = "b"
  /\ ui.timeout = 3 /\ ui.lastCall > 0 /\ ui.runs = 1

====
